---- MODULE Spec2Model ----
(***************************************************************************)
(* CFScanner (python): range resolution and enumeration                    *)
(* (src/python/subnets/cidr.py) and time-bounded acquisition of the xray   *)
(* binary (src/python/xray/binary.py).                                     *)
(*                                                                         *)
(* Three specifications share the module:                                  *)
(*   Spec         download_binary, called by two concurrent callers        *)
(*   SpecCidr     cidr_to_ip_list, get_num_ips_in_cidr,                    *)
(*                read_cidrs_from_asnlookup, read_cidrs_from_url,          *)
(*                read_cidrs_from_file                                     *)
(*   SpecResolve  read_cidrs                                               *)
(***************************************************************************)
EXTENDS Integers, Sequences, FiniteSets, TLC

VARIABLES
    disk,       \* the filesystem: path -> file, or NoFile
    zipdir,     \* whether the staging directory <PATH>/.tmp exists
    cache0,     \* the cache directory's content when the program started
    pc,         \* per caller: position inside download_binary
    system_info,\* per caller: the platform tuple of the current call
    xray_file,  \* per caller: the bytes read from the archive (local)
    offset,     \* per caller: file position of its open handle on bin_path
    existed,    \* per caller: what os.path.exists(bin_path) answered
    effects,    \* per caller: what the current call has done so far
    cause,      \* per caller: why the current call failed
    result,     \* per caller: what the current call returned or raised
    prev,       \* per caller: platform and result of its previous call
    ncalls,     \* number of calls started so far
    called,     \* cidr.py: the function called, "none" before the call
    arg,        \* cidr.py: its argument
    env,        \* cidr.py: the network / filesystem the call ran against
    ret,        \* cidr.py: what it returned or raised
    io          \* cidr.py: the fetches and file reads it made, in order

acqVars == <<disk, zipdir, cache0, pc, system_info, xray_file, offset,
             existed, effects, cause, result, prev, ncalls>>
cidrVars == <<called, arg, env, ret, io>>
vars == <<disk, zipdir, cache0, pc, system_info, xray_file, offset,
          existed, effects, cause, result, prev, ncalls,
          called, arg, env, ret, io>>

(***************************************************************************)
(* Bounds                                                                  *)
(***************************************************************************)
\* calls to download_binary in one behaviour
MaxCalls == 3
\* write() system calls it takes to store the binary
NumChunks == 2

(***************************************************************************)
(* xray/binary.py                                                          *)
(***************************************************************************)
Callers == {"a1", "a2"}

Linux == <<"linux", "64", "gnu">>
Windows == <<"windows", "64", "msvc">>
Plan9 == <<"plan9", "mips", "none">>
Platforms == {Linux, Windows, Plan9}

SUPPORTED == {Linux, Windows}

BinDir == "bin_dir"

NoFile == [kind |-> "nofile"]

\* the executable as the release ships it: NumChunks blocks
XrayBytes == [i \in 1..NumChunks |-> i]

BinPath(si) ==
    [dir |-> BinDir, name |-> <<"xray", si[1], si[2], si[3]>>,
     ext |-> IF si[1] = "windows" THEN ".exe" ELSE ""]

ZipPath(si) ==
    [dir |-> ".tmp", name |-> <<si[1], si[2], si[3]>>, ext |-> ".zip"]

EntryName(si) == IF si[1] = "windows" THEN "xray.exe" ELSE "xray"

Paths == {BinPath(s) : s \in Platforms} \cup {ZipPath(s) : s \in Platforms}

Mode644 == "0o644"
Mode775 == "0o775"

\* a binary left in the cache by an earlier run
Installed == [kind |-> "file", content |-> XrayBytes, mode |-> Mode775]

\* what the release server may serve: an archive holding one entry, or bytes
\* that are no zip archive
Archives ==
    {[kind |-> "zip", entries |-> {"xray"}],
     [kind |-> "zip", entries |-> {"xray.exe"}],
     [kind |-> "corrupt", entries |-> {}]}

\* how timeout_fun(timeout)(download_file)(url, path, timeout=max_latency)
\* fails: the exception class it raises, for each cause
DownloadFaults ==
    {[cause |-> "AttemptTooSlow", exc |-> "FileDownloadError"],
     [cause |-> "TransportFailure", exc |-> "FileDownloadError"],
     [cause |-> "OverallTimeout", exc |-> "TimeoutError"]}

RetNone == [kind |-> "none"]
RetFalse == [kind |-> "False"]
RetPath(p) == [kind |-> "path", path |-> p]
Raised(e) == [kind |-> "raise", exc |-> e]

\* except FileDownloadError / except KeyError / except Exception: all
\* three handlers log and return False
Handle(exc) ==
    CASE exc = "FileDownloadError" -> RetFalse
      [] exc = "KeyError" -> RetFalse
      [] OTHER -> RetFalse

Exists(path) == disk[path] # NoFile

Complete(path) == Exists(path) /\ disk[path].content = XrayBytes

Executable(path) == Exists(path) /\ disk[path].mode = Mode775

InitAcq ==
    /\ cache0 \in [{BinPath(s) : s \in Platforms} -> {NoFile, Installed}]
    /\ disk = [q \in Paths |->
                 IF q \in DOMAIN cache0 THEN cache0[q] ELSE NoFile]
    /\ zipdir \in BOOLEAN
    /\ pc = [c \in Callers |-> "idle"]
    /\ system_info = [c \in Callers |-> Linux]
    /\ xray_file = [c \in Callers |-> <<>>]
    /\ offset = [c \in Callers |-> 0]
    /\ existed = [c \in Callers |-> FALSE]
    /\ effects = [c \in Callers |-> {}]
    /\ cause = [c \in Callers |-> "none"]
    /\ result = [c \in Callers |-> RetNone]
    /\ prev = [c \in Callers |-> [si |-> Linux, result |-> RetNone]]
    /\ ncalls = 0

IdleCidr ==
    /\ called = "none"
    /\ arg = <<>>
    /\ env = <<>>
    /\ ret = RetNone
    /\ io = <<>>

Init == InitAcq /\ IdleCidr

\* the call ends: it returned r (or raised), for the reason why
Finish(c, r, why) ==
    /\ pc' = [pc EXCEPT ![c] = "done"]
    /\ result' = [result EXCEPT ![c] = r]
    /\ cause' = [cause EXCEPT ![c] = why]

\* Enter without the platform check of lines 35-36
EnterUnchecked(c, si) ==
    /\ pc' = [pc EXCEPT ![c] = "check"]
    /\ result' = [result EXCEPT ![c] = RetNone]
    /\ cause' = [cause EXCEPT ![c] = "none"]
    /\ effects' = [effects EXCEPT ![c] = {"zip_url", "makedirs"}]
    /\ zipdir' = TRUE

\* lines 35-49: the platform check, then the URL, the staging directory
\* and the paths
Enter(c, si) ==
    IF si \notin SUPPORTED
    THEN /\ Finish(c, Raised("OSError"), "Unsupported")
         /\ effects' = [effects EXCEPT ![c] = {}]
         /\ UNCHANGED zipdir
    ELSE /\ pc' = [pc EXCEPT ![c] = "check"]
         /\ result' = [result EXCEPT ![c] = RetNone]
         /\ cause' = [cause EXCEPT ![c] = "none"]
         /\ effects' = [effects EXCEPT ![c] = {"zip_url", "makedirs"}]
         /\ zipdir' = TRUE

\* download_binary(system_info, bin_dir) is called
Call(c, si) ==
    /\ pc[c] \in {"idle", "done"}
    /\ ncalls < MaxCalls
    /\ ncalls' = ncalls + 1
    /\ system_info' = [system_info EXCEPT ![c] = si]
    /\ prev' = [prev EXCEPT ![c] =
                  IF pc[c] = "done"
                  THEN [si |-> system_info[c], result |-> result[c]]
                  ELSE [si |-> si, result |-> RetNone]]
    /\ existed' = [existed EXCEPT ![c] = FALSE]
    /\ xray_file' = [xray_file EXCEPT ![c] = <<>>]
    /\ offset' = [offset EXCEPT ![c] = 0]
    /\ Enter(c, si)
    /\ UNCHANGED <<disk, cache0>>
    /\ UNCHANGED cidrVars

\* CheckExists downloading whether or not the binary is cached
CheckExistsAlwaysDownload(c) ==
    /\ pc[c] = "check"
    /\ existed' = [existed EXCEPT ![c] = Exists(BinPath(system_info[c]))]
    /\ pc' = [pc EXCEPT ![c] = "download"]
    /\ UNCHANGED <<result, cause>>
    /\ UNCHANGED <<disk, zipdir, cache0, system_info, xray_file, offset,
                   effects, prev, ncalls>>
    /\ UNCHANGED cidrVars

\* line 51 and lines 81-83: the cache test
CheckExists(c) ==
    /\ pc[c] = "check"
    /\ existed' = [existed EXCEPT ![c] = Exists(BinPath(system_info[c]))]
    /\ IF Exists(BinPath(system_info[c]))
       THEN Finish(c, RetPath(BinPath(system_info[c])), "none")
       ELSE /\ pc' = [pc EXCEPT ![c] = "download"]
            /\ UNCHANGED <<result, cause>>
    /\ UNCHANGED <<disk, zipdir, cache0, system_info, xray_file, offset,
                   effects, prev, ncalls>>
    /\ UNCHANGED cidrVars

\* lines 54-56: the bounded download into the staging path
Download(c) ==
    /\ pc[c] = "download"
    /\ effects' = [effects EXCEPT ![c] = @ \cup {"network"}]
    /\ \/ \E a \in Archives :
            /\ disk' = [disk EXCEPT ![ZipPath(system_info[c])] =
                          [kind |-> "file", content |-> a, mode |-> Mode644]]
            /\ pc' = [pc EXCEPT ![c] = "extract"]
            /\ UNCHANGED <<result, cause>>
       \/ \E f \in DownloadFaults :
            /\ Finish(c, Handle(f.exc), f.cause)
            /\ UNCHANGED disk
    /\ UNCHANGED <<zipdir, cache0, system_info, xray_file, offset, existed,
                   prev, ncalls>>
    /\ UNCHANGED cidrVars

\* lines 58-62: open the archive and read the platform's entry
ReadArchive(c) ==
    /\ pc[c] = "extract"
    /\ LET f == disk[ZipPath(system_info[c])] IN
         IF f = NoFile \/ f.content.kind = "corrupt"
         THEN /\ Finish(c, Handle("BadZipFile"), "CorruptArchive")
              /\ UNCHANGED xray_file
         ELSE IF EntryName(system_info[c]) \notin f.content.entries
         THEN /\ Finish(c, Handle("KeyError"), "MissingEntry")
              /\ UNCHANGED xray_file
         ELSE /\ xray_file' = [xray_file EXCEPT ![c] = XrayBytes]
              /\ pc' = [pc EXCEPT ![c] = "open"]
              /\ UNCHANGED <<result, cause>>
    /\ UNCHANGED <<disk, zipdir, cache0, system_info, offset, existed,
                   effects, prev, ncalls>>
    /\ UNCHANGED cidrVars

\* line 63: open(bin_path, "wb") creates the file, or truncates it
OpenBin(c) ==
    /\ pc[c] = "open"
    /\ \/ /\ disk' = [disk EXCEPT ![BinPath(system_info[c])] =
                        [kind |-> "file", content |-> <<>>,
                         mode |-> IF @ = NoFile THEN Mode644 ELSE @.mode]]
          /\ effects' = [effects EXCEPT ![c] = @ \cup {"open"}]
          /\ offset' = [offset EXCEPT ![c] = 0]
          /\ pc' = [pc EXCEPT ![c] = "write"]
          /\ UNCHANGED <<result, cause>>
       \/ /\ Finish(c, Handle("PermissionError"), "OpenFailed")
          /\ UNCHANGED <<disk, effects, offset>>
    /\ UNCHANGED <<zipdir, cache0, system_info, xray_file, existed, prev,
                   ncalls>>
    /\ UNCHANGED cidrVars

\* a write of block b at file position pos (a hole reads as 0)
WriteAt(content, pos, b) ==
    [i \in 1..(IF Len(content) > pos THEN Len(content) ELSE pos) |->
       IF i = pos THEN b ELSE IF i <= Len(content) THEN content[i] ELSE 0]

\* line 64: binoutfile.write(xray_file), one block per step, and the close
WriteBin(c) ==
    /\ pc[c] = "write"
    /\ \/ /\ Exists(BinPath(system_info[c]))
          /\ disk' = [disk EXCEPT ![BinPath(system_info[c])].content =
                        WriteAt(@, offset[c] + 1, xray_file[c][offset[c] + 1])]
          /\ offset' = [offset EXCEPT ![c] = @ + 1]
          /\ effects' = [effects EXCEPT ![c] = @ \cup {"write"}]
          /\ pc' = [pc EXCEPT ![c] =
                      IF offset[c] + 1 = Len(xray_file[c])
                      THEN "chmod" ELSE "write"]
          /\ UNCHANGED <<result, cause>>
       \/ /\ Finish(c, Handle("OSError"), "WriteFailed")
          /\ UNCHANGED <<disk, offset, effects>>
    /\ UNCHANGED <<zipdir, cache0, system_info, xray_file, existed, prev,
                   ncalls>>
    /\ UNCHANGED cidrVars

\* lines 65-66: os.chmod(bin_path, 0o775) and the return of bin_path
Chmod(c) ==
    /\ pc[c] = "chmod"
    /\ \/ /\ Exists(BinPath(system_info[c]))
          /\ disk' = [disk EXCEPT ![BinPath(system_info[c])].mode = Mode775]
          /\ effects' = [effects EXCEPT ![c] = @ \cup {"chmod"}]
          /\ Finish(c, RetPath(BinPath(system_info[c])), "none")
       \/ /\ Finish(c, Handle("PermissionError"), "ChmodFailed")
          /\ UNCHANGED <<disk, effects>>
    /\ UNCHANGED <<zipdir, cache0, system_info, xray_file, offset, existed,
                   prev, ncalls>>
    /\ UNCHANGED cidrVars

Next ==
    \/ \E c \in Callers, si \in Platforms : Call(c, si)
    \/ \E c \in Callers : CheckExists(c)
    \/ \E c \in Callers : Download(c)
    \/ \E c \in Callers : ReadArchive(c)
    \/ \E c \in Callers : OpenBin(c)
    \/ \E c \in Callers : WriteBin(c)
    \/ \E c \in Callers : Chmod(c)

Spec == Init /\ [][Next]_vars

(***************************************************************************)
(* subnets/cidr.py: enumeration                                            *)
(***************************************************************************)
\* host bits of the ranges enumerated (prefix >= width - MaxHostBits)
MaxHostBits == 3

V4Bits == 32
V6Bits == 128

RECURSIVE Pow2(_)
Pow2(n) == IF n <= 0 THEN 1 ELSE 2 * Pow2(n - 1)

Width(family) == IF family = 6 THEN V6Bits ELSE V4Bits

\* The text of a CIDR is a sequence of tokens: the address text, then
\* possibly "/" and the decimal prefix length.  An address is its family,
\* the bits above the low MaxHostBits ones (hi) and the low bits (lo).
AddrTok(family, hi, lo) ==
    [t |-> "addr", family |-> family, hi |-> hi, lo |-> lo, v |-> 0]
SlashTok == [t |-> "/", family |-> 0, hi |-> 0, lo |-> 0, v |-> 0]
IntTok(n) == [t |-> "int", family |-> 0, hi |-> 0, lo |-> 0, v |-> n]

Addresses ==
    {AddrTok(f, hi, lo) : f \in {4, 6}, hi \in {0, 1},
                          lo \in 0..(Pow2(MaxHostBits) - 1)}

\* every valid CIDR string with at most MaxHostBits host bits: a bare
\* address, or address/prefix, host bits set or not
ValidCidrs ==
    {<<a>> : a \in Addresses} \cup
    UNION {{<<a, SlashTok, IntTok(p)>> :
              p \in (Width(a.family) - MaxHostBits)..Width(a.family)} :
           a \in Addresses}

\* ":" in cidr: the text of an IPv6 address holds a colon, that of an IPv4
\* address does not
HasColon(cidr) == \E i \in 1..Len(cidr) : cidr[i].t = "addr" /\ cidr[i].family = 6

\* cidr.split('/')
SplitSlash(cidr) ==
    IF \E i \in 1..Len(cidr) : cidr[i].t = "/"
    THEN LET i == CHOOSE j \in 1..Len(cidr) :
                    /\ cidr[j].t = "/"
                    /\ \A k \in 1..(j - 1) : cidr[k].t # "/"
         IN <<SubSeq(cidr, 1, i - 1), SubSeq(cidr, i + 1, Len(cidr))>>
    ELSE <<cidr>>

\* lines 28-40
get_num_ips_in_cidr(cidr) ==
    LET parts == SplitSlash(cidr)
        subnet_mask == IF Len(parts) >= 2
                       THEN parts[2][1].v
                       ELSE IF HasColon(cidr) THEN V6Bits ELSE V4Bits
    IN IF HasColon(cidr)
       THEN Pow2(V6Bits - subnet_mask)
       ELSE Pow2(V4Bits - subnet_mask)

\* cidr_to_ip_list listing from the given address up, the host bits kept
cidr_to_ip_list_unmasked(cidr) ==
    LET a == cidr[1]
        prefixlen == IF Len(cidr) >= 3 THEN cidr[3].v ELSE Width(a.family)
        size == Pow2(Width(a.family) - prefixlen)
        first == a.lo
        last == (a.lo - (a.lo % size)) + size - 1
    IN [i \in 1..(last - first + 1) |->
          <<AddrTok(a.family, a.hi, first + i - 1)>>]

\* lines 13-25: ipaddress.ip_network(cidr, strict=False) clears the host
\* bits, and the network lists its addresses in ascending order as text
cidr_to_ip_list(cidr) ==
    LET a == cidr[1]
        prefixlen == IF Len(cidr) >= 3 THEN cidr[3].v ELSE Width(a.family)
        size == Pow2(Width(a.family) - prefixlen)
        network == a.lo - (a.lo % size)
    IN [i \in 1..size |-> <<AddrTok(a.family, a.hi, network + i - 1)>>]

Value(v) == [kind |-> "value", value |-> v]
Raise(e, m) == [kind |-> "raise", exc |-> e, msg |-> m]

CidrToIpList ==
    /\ called = "none"
    /\ \E cidr \in ValidCidrs :
         /\ called' = "cidr_to_ip_list"
         /\ arg' = cidr
         /\ env' = <<>>
         /\ ret' = Value(cidr_to_ip_list(cidr))
         /\ io' = <<>>
         /\ UNCHANGED acqVars

GetNumIpsInCidr ==
    /\ called = "none"
    /\ \E cidr \in ValidCidrs :
         /\ called' = "get_num_ips_in_cidr"
         /\ arg' = cidr
         /\ env' = <<>>
         /\ ret' = Value(get_num_ips_in_cidr(cidr))
         /\ io' = <<>>
         /\ UNCHANGED acqVars

(***************************************************************************)
(* subnets/cidr.py: ingestion                                              *)
(***************************************************************************)
\* tokens of a response body
MaxBody == 2
\* identifiers in an ASN list
MaxAsnList == 3
\* characters in a range file
MaxFileLen == 3

RECURSIVE SeqsUpTo(_, _)
SeqsUpTo(S, n) ==
    IF n = 0 THEN {<<>>}
    ELSE LET shorter == SeqsUpTo(S, n - 1)
         IN shorter \cup {Append(q, x) : q \in shorter, x \in S}

\* a response body is a run of words, some of them of the shape
\* d.d.d.d/d that cidr_regex matches
BodyWords == {"1.2.3.0/24", "10.0.0.0/8", "blah"}
CidrShaped(w) == w \in {"1.2.3.0/24", "10.0.0.0/8"}
Bodies == SeqsUpTo(BodyWords, MaxBody)

\* re.findall(cidr_regex, r.text): the matches in order of appearance
FindAll(text) == SelectSeq(text, CidrShaped)

\* what requests.get meets: a transport fault, a non-200 status, or a body
Responses ==
    {[fault |-> TRUE, status |-> 0, text |-> <<>>],
     [fault |-> FALSE, status |-> 404, text |-> <<>>]} \cup
    {[fault |-> FALSE, status |-> 200, text |-> b] : b \in Bodies}

ASNs == {"AS13335", "AS209242"}
AsnUrl(asn) == <<"https://asnlookup.com/asn/", asn, "/">>
AsnLists == SeqsUpTo(ASNs, MaxAsnList)
Webs == [{AsnUrl(a) : a \in ASNs} -> Responses]

Get(url) == [op |-> "GET", target |-> url]
ReadOf(path) == [op |-> "read", target |-> path]

UrlError == Raise("SubnetsReadError", "Could not read cidrs from url")
FileError == Raise("SubnetsReadError", "Could not read cidrs from file")
NeitherError ==
    Raise("SubnetsReadError", "neither a valid url or a file path")

\* lines 63-87, against the response r the GET meets
read_cidrs_from_url(r) ==
    IF r.fault THEN UrlError
    ELSE IF r.status # 200 THEN UrlError
    ELSE Value(FindAll(r.text))

\* the loop of lines 55-58 going on after a failed identifier
RECURSIVE AsnLoopBestEffort(_, _, _, _, _)
AsnLoopBestEffort(asn_list, web, i, cidrs, fetched) ==
    IF i > Len(asn_list)
    THEN [ret |-> Value(cidrs), io |-> fetched]
    ELSE LET url == AsnUrl(asn_list[i])
             this_cidrs == read_cidrs_from_url(web[url])
         IN AsnLoopBestEffort(asn_list, web, i + 1,
                IF this_cidrs.kind = "raise" THEN cidrs
                ELSE cidrs \o this_cidrs.value,
                Append(fetched, Get(url)))

\* lines 54-60: the loop from identifier i on, an exception of
\* read_cidrs_from_url leaving it
RECURSIVE AsnLoop(_, _, _, _, _)
AsnLoop(asn_list, web, i, cidrs, fetched) ==
    IF i > Len(asn_list)
    THEN [ret |-> Value(cidrs), io |-> fetched]
    ELSE LET url == AsnUrl(asn_list[i])
             this_cidrs == read_cidrs_from_url(web[url])
         IN IF this_cidrs.kind = "raise"
            THEN [ret |-> this_cidrs, io |-> Append(fetched, Get(url))]
            ELSE AsnLoop(asn_list, web, i + 1, cidrs \o this_cidrs.value,
                         Append(fetched, Get(url)))

read_cidrs_from_asnlookup(asn_list, web) ==
    AsnLoop(asn_list, web, 1, <<>>, <<>>)

\* the characters of a range file as read in text mode
LF == "\n"
FileChars == {"1", "x", LF}
Contents == SeqsUpTo(FileChars, MaxFileLen)

\* a path names nothing, a file that cannot be read, or a readable file
Missing == [exists |-> FALSE, readable |-> FALSE, content |-> <<>>]
Unreadable == [exists |-> TRUE, readable |-> FALSE, content |-> <<>>]
Readable(c) == [exists |-> TRUE, readable |-> TRUE, content |-> c]
FileStates == {Missing, Unreadable} \cup {Readable(c) : c \in Contents}

\* str.splitlines(): the text between line ends; a line end at the very
\* end of the text opens no further line
RECURSIVE SplitLines(_)
SplitLines(text) ==
    IF text = <<>> THEN <<>>
    ELSE IF \E i \in 1..Len(text) : text[i] = LF
    THEN LET i == CHOOSE j \in 1..Len(text) :
                    /\ text[j] = LF
                    /\ \A k \in 1..(j - 1) : text[k] # LF
         IN <<SubSeq(text, 1, i - 1)>>
                \o SplitLines(SubSeq(text, i + 1, Len(text)))
    ELSE <<text>>

\* read_cidrs_from_file without the test of line 104
read_cidrs_from_file_unchecked(file) ==
    IF ~file.exists \/ ~file.readable THEN FileError
    ELSE Value(SplitLines(file.content))

\* lines 90-109, against the file the path names
read_cidrs_from_file(file) ==
    IF ~file.exists \/ ~file.readable THEN FileError
    ELSE LET cidrs == SplitLines(file.content)
         IN IF Len(cidrs) = 0 THEN FileError ELSE Value(cidrs)

RangeFile == <<"r", "a", "n", "g", "e", "s">>

ReadCidrsFromUrl ==
    /\ called = "none"
    /\ \E asn \in ASNs, web \in Webs :
         /\ called' = "read_cidrs_from_url"
         /\ arg' = AsnUrl(asn)
         /\ env' = web
         /\ ret' = read_cidrs_from_url(web[AsnUrl(asn)])
         /\ io' = <<Get(AsnUrl(asn))>>
         /\ UNCHANGED acqVars

ReadCidrsFromAsnlookup ==
    /\ called = "none"
    /\ \E asn_list \in AsnLists, web \in Webs :
         /\ called' = "read_cidrs_from_asnlookup"
         /\ arg' = asn_list
         /\ env' = web
         /\ ret' = read_cidrs_from_asnlookup(asn_list, web).ret
         /\ io' = read_cidrs_from_asnlookup(asn_list, web).io
         /\ UNCHANGED acqVars

ReadCidrsFromFile ==
    /\ called = "none"
    /\ \E file \in FileStates :
         /\ called' = "read_cidrs_from_file"
         /\ arg' = RangeFile
         /\ env' = file
         /\ ret' = read_cidrs_from_file(file)
         /\ io' = <<ReadOf(RangeFile)>>
         /\ UNCHANGED acqVars

\* no call of download_binary is under way in the specifications of cidr.py
InitCidr ==
    /\ InitAcq
    /\ zipdir = FALSE
    /\ \A q \in DOMAIN cache0 : cache0[q] = NoFile
    /\ IdleCidr

NextCidr ==
    \/ CidrToIpList
    \/ GetNumIpsInCidr
    \/ ReadCidrsFromUrl
    \/ ReadCidrsFromAsnlookup
    \/ ReadCidrsFromFile

SpecCidr == InitCidr /\ [][NextCidr]_vars

(***************************************************************************)
(* subnets/cidr.py: read_cidrs                                             *)
(***************************************************************************)
\* characters in the url_or_path argument
MaxPathLen == 4

\* a letter, a digit, and the two characters that shape a URL
PathChars == {"c", "1", ":", "/"}
Letters == {"c"}
SchemeChars == {"c", "1"}
Inputs == SeqsUpTo(PathChars, MaxPathLen)

\* urlparse(url).scheme: the text before the first ":" when that text is
\* not empty, starts with a letter and holds scheme characters only
UrlScheme(url) ==
    IF \E i \in 1..Len(url) : url[i] = ":"
    THEN LET i == CHOOSE j \in 1..Len(url) :
                    /\ url[j] = ":"
                    /\ \A k \in 1..(j - 1) : url[k] # ":"
         IN IF /\ i > 1
               /\ url[1] \in Letters
               /\ \A k \in 1..(i - 1) : url[k] \in SchemeChars
            THEN SubSeq(url, 1, i - 1)
            ELSE <<>>
    ELSE <<>>

\* what a call of read_cidrs meets: the file its argument names (if any)
\* and the response a GET of its argument would get.  The empty path and a
\* path ending in "/" name no regular file.
ResolveEnvs(url_or_path) ==
    {[file |-> f, response |-> r] :
        f \in {g \in FileStates :
                 g.exists => /\ url_or_path # <<>>
                             /\ url_or_path[Len(url_or_path)] # "/"},
        r \in Responses}

\* lines 112-133
read_cidrs(url_or_path, e) ==
    IF UrlScheme(url_or_path) # <<>>
    THEN [ret |-> read_cidrs_from_url(e.response),
          io |-> <<Get(url_or_path)>>]
    ELSE IF e.file.exists
    THEN [ret |-> read_cidrs_from_file(e.file),
          io |-> <<ReadOf(url_or_path)>>]
    ELSE [ret |-> NeitherError, io |-> <<>>]

ReadCidrs ==
    /\ called = "none"
    /\ \E url_or_path \in Inputs : \E e \in ResolveEnvs(url_or_path) :
         /\ called' = "read_cidrs"
         /\ arg' = url_or_path
         /\ env' = e
         /\ ret' = read_cidrs(url_or_path, e).ret
         /\ io' = read_cidrs(url_or_path, e).io
         /\ UNCHANGED acqVars

NextResolve == ReadCidrs

SpecResolve == InitCidr /\ [][NextResolve]_vars

(***************************************************************************)
(* Properties of cidr.py                                                   *)
(***************************************************************************)
PrefixOf(cidr) ==
    IF Len(cidr) >= 3 THEN cidr[3].v ELSE Width(cidr[1].family)

\* C5: for every valid CIDR string c, the list cidr_to_ip_list(c) is as
\* long as get_num_ips_in_cidr(c) says, which is 2^(32 - prefix) for IPv4
\* and 2^(128 - prefix) for IPv6, the prefix 32 or 128 when absent.
C5_CountMatchesList ==
    /\ called = "cidr_to_ip_list" =>
          /\ Len(ret.value) = get_num_ips_in_cidr(arg)
          /\ Len(ret.value) = Pow2(Width(arg[1].family) - PrefixOf(arg))
    /\ called = "get_num_ips_in_cidr" =>
          /\ ret.value = Len(cidr_to_ip_list(arg))
          /\ ret.value = Pow2(Width(arg[1].family) - PrefixOf(arg))

\* an IPv6 range of several addresses given by an address with host bits set
C5_Witness ==
    /\ called = "cidr_to_ip_list"
    /\ arg[1].family = 6
    /\ Len(arg) = 3
    /\ arg[1].lo % 4 = 3
    /\ Len(ret.value) = 4

Fails(r) == r.fault \/ r.status # 200

RECURSIVE Flatten(_)
Flatten(ss) ==
    IF Len(ss) = 0 THEN <<>>
    ELSE Flatten(SubSeq(ss, 1, Len(ss) - 1)) \o ss[Len(ss)]

\* C7: read_cidrs_from_asnlookup raises when the fetch of an identifier
\* fails, returning no list and fetching nothing after the failing
\* identifier; otherwise it returns the per-identifier matches concatenated
\* in the order of the list, an identifier without matches adding nothing.
C7_FailFastInOrder ==
    called = "read_cidrs_from_asnlookup" =>
        LET bad == {i \in 1..Len(arg) : Fails(env[AsnUrl(arg[i])])}
        IN IF bad # {}
           THEN LET first == CHOOSE i \in bad : \A j \in bad : i <= j
                IN /\ ret = UrlError
                   /\ io = [i \in 1..first |-> Get(AsnUrl(arg[i]))]
           ELSE /\ ret = Value(Flatten([i \in 1..Len(arg) |->
                                   FindAll(env[AsnUrl(arg[i])].text)]))
                /\ io = [i \in 1..Len(arg) |-> Get(AsnUrl(arg[i]))]

\* the second of three identifiers fails after the first gave matches
C7_Witness ==
    /\ called = "read_cidrs_from_asnlookup"
    /\ Len(arg) = 3
    /\ ~Fails(env[AsnUrl(arg[1])])
    /\ FindAll(env[AsnUrl(arg[1])].text) # <<>>
    /\ Fails(env[AsnUrl(arg[2])])
    /\ ret.kind = "raise"
    /\ Len(io) = 2

\* the positions of the line ends of a text, and its k-th line
LineEnds(text) == {i \in 1..Len(text) : text[i] = LF}
NumLines(text) ==
    Cardinality(LineEnds(text))
        + (IF Len(text) > 0 /\ text[Len(text)] # LF THEN 1 ELSE 0)
KthEnd(text, k) ==
    IF k = 0 THEN 0
    ELSE IF k > Cardinality(LineEnds(text)) THEN Len(text) + 1
    ELSE CHOOSE i \in LineEnds(text) :
            Cardinality({j \in LineEnds(text) : j <= i}) = k
Line(text, k) == SubSeq(text, KthEnd(text, k - 1) + 1, KthEnd(text, k) - 1)

\* C8: read_cidrs_from_file raises when the file cannot be read or has no
\* line, and otherwise returns every line of the file, in file order and
\* unvalidated.
C8_FileLines ==
    called = "read_cidrs_from_file" =>
        IF ~env.exists \/ ~env.readable \/ env.content = <<>>
        THEN ret = FileError
        ELSE /\ ret.kind = "value"
             /\ Len(ret.value) = NumLines(env.content)
             /\ \A k \in 1..NumLines(env.content) :
                    ret.value[k] = Line(env.content, k)

\* a file holding one line that is no CIDR
C8_Witness ==
    /\ called = "read_cidrs_from_file"
    /\ env = Readable(<<"x", "x", LF>>)
    /\ ret = Value(<< <<"x", "x">> >>)

WithBlankLines(text, k) == text \o [i \in 1..k |-> LF]

\* C9: a file (empty, or ending with a line end) read with blank lines
\* appended gives what the file itself gives: the same entries, or the
\* error of the empty file.
C9_TrailingBlankLinesIgnored ==
    ( /\ called = "read_cidrs_from_file"
      /\ env.readable
      /\ (env.content = <<>> \/ env.content[Len(env.content)] = LF) )
    => \A k \in 1..2 :
          read_cidrs_from_file(Readable(WithBlankLines(env.content, k))) = ret

\* the text s holds pat at position i
HoldsAt(s, i, pat) ==
    /\ i + Len(pat) - 1 <= Len(s)
    /\ \A k \in 1..Len(pat) : s[i + k - 1] = pat[k]

\* URL-shaped, read the way that suits read_cidrs best: urlparse finds a
\* scheme
UrlShaped(s) == UrlScheme(s) # <<>>

HasSchemeSeparator(s) ==
    \E i \in 1..Len(s) : HoldsAt(s, i, <<":", "/", "/">>)

\* C4: read_cidrs fetches every URL-shaped input, reads every input that
\* names an existing file and holds no "://" as a file, and fails with the
\* "neither" error, fetching and reading nothing, for every other input.
C4_Classification ==
    called = "read_cidrs" =>
        /\ UrlShaped(arg) => io = <<Get(arg)>>
        /\ env.file.exists /\ env.file.readable /\ ~HasSchemeSeparator(arg) =>
              io = <<ReadOf(arg)>>
        /\ ~UrlShaped(arg) /\ ~env.file.exists =>
              ret = NeitherError /\ io = <<>>

(***************************************************************************)
(* Properties of download_binary                                           *)
(***************************************************************************)
Returned(c) == pc[c] = "done"

Other(c) == CHOOSE d \in Callers : d # c

\* C1: a call for a supported platform that finds the final binary path
\* existing returns that path and makes no network call; a call that follows
\* a successful call for the same platform returns the same path and
\* downloads nothing.
C1_CacheHit ==
    \A c \in Callers :
        Returned(c) /\ system_info[c] \in SUPPORTED =>
            /\ existed[c] =>
                  /\ result[c] = RetPath(BinPath(system_info[c]))
                  /\ "network" \notin effects[c]
            /\ prev[c].si = system_info[c] /\ prev[c].result.kind = "path" =>
                  /\ result[c] = prev[c].result
                  /\ "network" \notin effects[c]

\* a second call in a row, after a first one that had to download
C1_Witness ==
    \E c \in Callers :
        /\ Returned(c) /\ existed[c]
        /\ cache0[BinPath(system_info[c])] = NoFile
        /\ prev[c].si = system_info[c] /\ prev[c].result.kind = "path"
        /\ result[c] = prev[c].result

\* C2: no caller gets a cache hit on the final path while the other caller
\* has only partly written the binary at that path.
C2_NoPartialVisible ==
    \A c \in Callers :
        ( /\ Returned(c) /\ existed[c]
          /\ pc[Other(c)] = "write"
          /\ system_info[Other(c)] = system_info[c] )
        => Complete(BinPath(system_info[c]))

\* C3: a download aborted for a too slow attempt (max_latency) and one
\* aborted for the overall budget (timeout) give the caller different
\* outcomes.
C3_TimeoutsDistinguishable ==
    \A c, d \in Callers :
        ( /\ Returned(c) /\ cause[c] = "AttemptTooSlow"
          /\ Returned(d) /\ cause[d] = "OverallTimeout" )
        => result[c] # result[d]

\* C6: a call for an unsupported platform raises, having built no URL,
\* created no directory or file and made no network call.
C6_UnsupportedFailsFirst ==
    \A c \in Callers :
        Returned(c) /\ system_info[c] \notin SUPPORTED =>
            /\ result[c] = Raised("OSError")
            /\ effects[c] = {}

\* an unsupported platform whose cache path holds a file
C6_Witness ==
    \E c \in Callers :
        /\ Returned(c) /\ system_info[c] \notin SUPPORTED
        /\ Exists(BinPath(system_info[c]))
        /\ result[c] = Raised("OSError")

\* C10: from an empty cache, with one caller, a call that returns False
\* leaves no file at the final path, and a call that returns a path returns
\* one holding the complete binary with the execute permission.
C10_FailureLeavesNoFile ==
    \A c \in Callers :
        ( /\ Returned(c)
          /\ pc[Other(c)] = "idle"
          /\ \A q \in DOMAIN cache0 : cache0[q] = NoFile )
        => /\ result[c] = RetFalse => ~Exists(BinPath(system_info[c]))
           /\ result[c].kind = "path" =>
                 /\ Complete(result[c].path)
                 /\ Executable(result[c].path)

====
